---- MODULE Spec2Model ----
(***************************************************************************)
(* Model of the belt winder controller (src/main.py): the hall-sensor      *)
(* RotationSensor with its pin interrupt, the touch Buttons debouncer, the *)
(* Blind motor driver, the Settings store and the three mode loops         *)
(* (basic_mode_loop, move_up_until_blocked_and_count_steps,                *)
(* advanced_mode_loop) run by the module body.                             *)
(*                                                                         *)
(* Two execution contexts are interleaved: the control context (the module *)
(* body, at position pc, and inside wait_for_sync_position at wpc) and the *)
(* scheduled pin interrupt (PinIrq).  The environment moves the clock      *)
(* (Tick) and the hall pin (PinChange); the touch pad readings are inputs  *)
(* of each poll.                                                           *)
(***************************************************************************)
EXTENDS Integers, Naturals, FiniteSets, Sequences, TLC

(***************************************************************************)
(* Program constants                                                       *)
(***************************************************************************)
TOUCH_ADC_THRESHOLD == 300
BUTTON_PRESS_EVENT_THRESHOLD_MS == 200
ABOVE_MAGNET_LOGIC_LEVEL == 0
NOT_ABOVE_MAGNET_LOGIC_LEVEL == IF ABOVE_MAGNET_LOGIC_LEVEL = 0 THEN 1 ELSE 0

\* class ButtonEvent
NONE == 0
UP == 1
DOWN == 2
BOTH == 3

\* the timeouts passed to wait_for_sync_position at its call sites
UP_TIMEOUT_MS == 8000
DOWN_TIMEOUT_MS == 3000

\* Python's None, for an optional timestamp or an optional step count
\* (elapsed times and step counts are never negative)
None == 0 - 1

(***************************************************************************)
(* Time.  The program reads the clock only as time.ticks_diff(now, t) for  *)
(* a timestamp t = time.ticks_ms() it took earlier (lines 144, 152, 206,   *)
(* 210, 216), so a timestamp is kept as the milliseconds elapsed since it  *)
(* was taken: taking it stores 0, the clock advancing by d adds d to every *)
(* timestamp held, and ticks_diff(ticks_ms(), t) is the stored value.      *)
(* The value is exact up to a cap above every constant it is compared      *)
(* with; the model covers the runs in which no timestamp is held for half  *)
(* the tick period (2^29 ms) or longer, where ticks_diff would wrap.       *)
(* _last_irq_ts is written by _pin_irq and never read: it is left out.     *)
(***************************************************************************)
\* cap of the elapsed time of a wait (above the largest timeout, 8000)
WaitAgeCap == 8001
\* cap of the elapsed time of a press (above the press threshold, 200)
PressAgeCap == 201
\* scheduled, not yet run, pin interrupt callbacks
MaxPending == 1
\* cap of the step counter and of current_position
MaxSteps == 2
\* calls made on the Blind object in the specification of the Blind alone
MaxCalls == 4

\* clock advances of the whole-controller specification: after one the down
\* timeout is reached exactly (not yet expired), after two it is passed,
\* after three the up timeout is passed
CoarseTicks == {DOWN_TIMEOUT_MS}
\* clock advances of the debouncer specification: 100 + 100 is exactly the
\* press threshold, 100 + 101 is just past it
FineTicks == {100, 101}
\* raw touch readings a poll may get: just below the threshold (pressed) and
\* at it (not pressed)
TouchValues == {TOUCH_ADC_THRESHOLD - 1, TOUCH_ADC_THRESHOLD}
Levels == {ABOVE_MAGNET_LOGIC_LEVEL, NOT_ABOVE_MAGNET_LOGIC_LEVEL}

VARIABLES
    \* ---- environment / hardware
    hall_pin,           \* level of the hall sensor pin (Pin 32)
    irq_pending,        \* pin interrupt callbacks scheduled and not yet run
    touch_up,           \* what self._up.read() returned at the last poll
    touch_down,         \* what self._down.read() returned at the last poll
    pin_a,              \* Blind._pin_a output
    pin_b,              \* Blind._pin_b output
    nvs,                \* NVS key "R": the stored total, or None
    \* ---- Settings
    cached,             \* Settings._number_of_total_steps_cached
    \* ---- RotationSensor
    current_level,      \* RotationSensor._current_level
    relativ_position,   \* RotationSensor._relativ_position
    \* ---- frame of wait_for_sync_position
    wpc,                \* position inside wait_for_sync_position
    timeout_ms,         \* its argument
    start_ts,           \* its local start_ts, as the time elapsed since; None
                        \* while there is no frame
    start_level,        \* its local start_level
    ts,                 \* its local ts
    ret,                \* its return value
    \* ---- Buttons
    start_up_ts,        \* Buttons._start_up_ts, as the time elapsed since; None
    start_down_ts,      \* Buttons._start_down_ts, as the time elapsed since; None
    \* ---- control context (module body and the mode loops)
    pc,                 \* position of the control context
    caller,             \* call site of move_up_until_blocked_and_count_steps
    button_event,       \* last value returned by poll_button_event
    steps,              \* local of move_up_until_blocked_and_count_steps
    endpos_on_magnet,   \* local of move_up_until_blocked_and_count_steps
    stop_position,      \* local of advanced_mode_loop
    current_position,   \* local of advanced_mode_loop
    number_of_total_steps, \* module global
    \* ---- history variables (observations the properties are stated on)
    h

vars == <<hall_pin, irq_pending, touch_up, touch_down, pin_a, pin_b, nvs,
          cached, current_level, relativ_position,
          wpc, timeout_ms, start_ts, start_level, ts, ret,
          start_up_ts, start_down_ts,
          pc, caller, button_event, steps, endpos_on_magnet, stop_position,
          current_position, number_of_total_steps, h>>

envVars == <<hall_pin, irq_pending, touch_up, touch_down>>
blindVars == <<pin_a, pin_b>>
settingsVars == <<nvs, cached>>
sensorVars == <<current_level, relativ_position>>
waitVars == <<wpc, timeout_ms, start_ts, start_level, ts, ret>>
buttonVars == <<start_up_ts, start_down_ts>>
ctrlVars == <<pc, caller, button_event, steps, endpos_on_magnet, stop_position,
              current_position, number_of_total_steps>>

(***************************************************************************)
(* History record.  Its fields are written beside the program statements   *)
(* they observe and are never read by the program.                         *)
(*   in_call      a wait_for_sync_position call has read its start level   *)
(*                and has not returned                                     *)
(*   obs          0: nothing yet, 1: the waiter read "between magnets",    *)
(*                2: it afterwards read "above magnet"                     *)
(*   edge         _pin_irq has run during the call                         *)
(*   aboves       _pin_irq runs that published "above magnet" during the   *)
(*                call (capped at 2)                                       *)
(*   above_in_win after the first of them the waiter made an elapsed-time  *)
(*                check that found the budget not used up: the transition  *)
(*                lay inside the window the waiter measures                *)
(*   call_age     time elapsed since the call read its start level         *)
(*   (these six are cleared when the caller has taken the result)          *)
(*   fresh        _pin_irq has run since the hall pin last changed (or the *)
(*                pin has not changed since the constructor read it)       *)
(*   reached      Reached results of the counting loop of the current run  *)
(*                of move_up_until_blocked_and_count_steps                 *)
(*   sync         "none", or what is_in_sync_position saw when it ran in   *)
(*                this run: <<hall pin, _current_level, pending callbacks>>*)
(*   up_since, down_since time elapsed since the unbroken run of pressed   *)
(*                readings seen by the polls began, or None (kept by the   *)
(*                polls of the debouncer specification)                    *)
(*   up_dur, down_dur     the same, as it was at the last poll             *)
(*   polled       poll_button_event has run at least once                  *)
(*   again        the last poll returned the event of the poll before it,  *)
(*                an event other than NONE, on readings that were pressed  *)
(*                or not as at the poll before it                          *)
(*   boot_value   NVS content at boot                                      *)
(*   trav         "none", "up", "down": the Advanced traversal under way   *)
(*                or last finished                                         *)
(*   trav_reached Reached results consumed by that traversal               *)
(*   down_ret     result of the wait of line 283, while the wait of line   *)
(*                286 is under way                                         *)
(*   bounce       "during": in the blocking wait under way or just over, a *)
(*                pad that read pressed at the last poll was let go and    *)
(*                pressed again; "polled": the first poll after that wait  *)
(*                has read the pad pressed again (until the next wait      *)
(*                starts or the next poll); "no" otherwise                 *)
(*   calls        the calls made on the Blind object, in order (kept by    *)
(*                the specification of the Blind alone)                    *)
(***************************************************************************)
HistInit(boot) ==
    [in_call |-> FALSE, obs |-> 0,
     edge |-> FALSE, aboves |-> 0, above_in_win |-> FALSE, call_age |-> None,
     fresh |-> TRUE,
     reached |-> 0,
     sync |-> <<>>,
     up_since |-> None, down_since |-> None,
     up_dur |-> None, down_dur |-> None, polled |-> FALSE, again |-> FALSE,
     boot_value |-> boot,
     trav |-> "none", trav_reached |-> 0,
     calls |-> <<>>,
     down_ret |-> FALSE,
     bounce |-> "no"]

\* the record once the caller has taken the result of a wait
HistTaken(hh) ==
    [hh EXCEPT !.in_call = FALSE, !.obs = 0, !.edge = FALSE, !.aboves = 0,
               !.above_in_win = FALSE, !.call_age = None]

Cap2(n) == IF n < 2 THEN n + 1 ELSE 2

\* what the waiter has observed after reading level l
ObsAfter(o, l) ==
    IF l = NOT_ABOVE_MAGNET_LOGIC_LEVEL /\ o = 0 THEN 1
    ELSE IF l = ABOVE_MAGNET_LOGIC_LEVEL /\ o = 1 THEN 2
    ELSE o

(***************************************************************************)
(* Environment                                                             *)
(***************************************************************************)
\* a held timestamp after the clock has advanced by d
Aged(t, d, cap) ==
    IF t = None THEN None
    ELSE IF t + d > cap THEN cap ELSE t + d

\* the clock advances by d
Advance(d) ==
    /\ start_ts' = Aged(start_ts, d, WaitAgeCap)
    /\ start_up_ts' = Aged(start_up_ts, d, PressAgeCap)
    /\ start_down_ts' = Aged(start_down_ts, d, PressAgeCap)
    /\ h' = [h EXCEPT !.up_since = Aged(@, d, PressAgeCap),
                      !.down_since = Aged(@, d, PressAgeCap),
                      !.call_age = Aged(@, d, WaitAgeCap)]
    /\ UNCHANGED <<wpc, timeout_ms, start_level, ts, ret>>
    /\ UNCHANGED <<envVars, blindVars, settingsVars, sensorVars, ctrlVars>>

Tick == \E d \in CoarseTicks : Advance(d)

TickFine == \E d \in FineTicks : Advance(d)

\* The hall pin toggles (a magnet arrives or leaves).  The pin was configured
\* with trigger = IRQ_FALLING | IRQ_RISING, so every toggle schedules one run
\* of the handler.
PinChange ==
    /\ irq_pending < MaxPending
    /\ hall_pin' = 1 - hall_pin
    /\ irq_pending' = irq_pending + 1
    /\ h' = [h EXCEPT !.fresh = FALSE]
    /\ UNCHANGED <<touch_up, touch_down>>
    /\ UNCHANGED <<blindVars, settingsVars, sensorVars, waitVars, buttonVars,
                   ctrlVars>>

\* A pad that read pressed at the last poll is let go and pressed again while
\* the control context is inside a wait of basic_mode_loop or of a traversal
\* of advanced_mode_loop.  No pad is read there, so no program variable
\* changes.
PadBounce ==
    /\ pc \in {"basic_up_wait", "basic_down_wait", "adv_up_wait", "adv_down_wait"}
    /\ wpc # "idle"
    /\ h.bounce = "no"
    /\ start_up_ts # None \/ start_down_ts # None
    /\ h' = [h EXCEPT !.bounce = "during"]
    /\ UNCHANGED <<envVars, blindVars, settingsVars, sensorVars, waitVars,
                   buttonVars, ctrlVars>>

(***************************************************************************)
(* RotationSensor                                                          *)
(***************************************************************************)
\* One scheduled run of  lambda e: self._pin_irq(e.value()) : the level is
\* read from the pin when the handler runs and published in _current_level.
PinIrq ==
    /\ irq_pending > 0
    /\ irq_pending' = irq_pending - 1
    /\ current_level' = hall_pin
    /\ h' = IF h.in_call
            THEN [h EXCEPT
                   !.fresh = TRUE,
                   !.edge = TRUE,
                   !.aboves = IF hall_pin = ABOVE_MAGNET_LOGIC_LEVEL
                              THEN Cap2(@) ELSE @]
            ELSE [h EXCEPT !.fresh = TRUE]
    /\ UNCHANGED <<hall_pin, touch_up, touch_down, relativ_position>>
    /\ UNCHANGED <<blindVars, settingsVars, waitVars, buttonVars, ctrlVars>>

\* get_relative_position(); reset_relativ_position() and this getter are
\* called nowhere, and no statement other than the constructor's assigns
\* _relativ_position
GetRelativePosition == relativ_position

\* (variant: compared with the other level)
IsInSyncPosition_Inverted == hall_pin = NOT_ABOVE_MAGNET_LOGIC_LEVEL

\* is_in_sync_position(): reads the pin itself
IsInSyncPosition == hall_pin = ABOVE_MAGNET_LOGIC_LEVEL

\* (variant: the first loop is never entered)
StartedOnMagnet_Never(level) == FALSE

\* line 142: the call started on a magnet and first has to leave it
StartedOnMagnet(level) == level = ABOVE_MAGNET_LOGIC_LEVEL

\* (variant: each loop may use the budget once more)
TimedOut_Doubled(elapsed, timeout) == elapsed > 2 * timeout

\* lines 145 and 153: the budget is used up
TimedOut(elapsed, timeout) == elapsed > timeout

\* The caller's side of a call wait_for_sync_position(timeout).
CallWait(timeout) ==
    /\ wpc' = "call"
    /\ timeout_ms' = timeout
    /\ start_ts' = None
    /\ start_level' = 0
    /\ ts' = 0
    /\ ret' = FALSE

\* The caller's side of the return: the frame is dropped.
DropFrame ==
    /\ wpc' = "idle"
    /\ timeout_ms' = 0
    /\ start_ts' = None
    /\ start_level' = 0
    /\ ts' = 0
    /\ ret' = FALSE

\* lines 138-142
WaitStart ==
    /\ wpc = "call"
    /\ start_ts' = 0
    /\ start_level' = current_level
    /\ wpc' = IF StartedOnMagnet(current_level) THEN "leave_time" ELSE "reach_time"
    /\ h' = [h EXCEPT !.in_call = TRUE,
                      !.obs = ObsAfter(0, current_level),
                      !.edge = FALSE, !.aboves = 0, !.above_in_win = FALSE,
                      !.call_age = 0,
                      !.bounce = IF @ = "polled" THEN "no" ELSE @]
    /\ UNCHANGED <<timeout_ms, ts, ret>>
    /\ UNCHANGED <<envVars, blindVars, settingsVars, sensorVars, buttonVars, ctrlVars>>

\* lines 144-146 (at "leave_time") and 152-154 (at "reach_time")
WaitCheckTime(at, next) ==
    /\ wpc = at
    /\ ts' = start_ts
    /\ IF TimedOut(ts', timeout_ms)
       THEN /\ ret' = FALSE
            /\ wpc' = "done"
            /\ h' = [h EXCEPT !.in_call = FALSE]
       ELSE /\ wpc' = next
            /\ h' = [h EXCEPT !.above_in_win = (h.aboves > 0)]
            /\ UNCHANGED ret
    /\ UNCHANGED <<timeout_ms, start_ts, start_level>>
    /\ UNCHANGED <<envVars, blindVars, settingsVars, sensorVars, buttonVars, ctrlVars>>

WaitLeaveTime == WaitCheckTime("leave_time", "leave_level")

WaitReachTime == WaitCheckTime("reach_time", "reach_level")

\* lines 147-148 (ts is not read again before it is reassigned: it is
\* cleared when the loop goes round)
WaitLeaveLevel ==
    /\ wpc = "leave_level"
    /\ wpc' = IF current_level = NOT_ABOVE_MAGNET_LOGIC_LEVEL
              THEN "reach_time" ELSE "leave_time"
    /\ ts' = 0
    /\ h' = [h EXCEPT !.obs = ObsAfter(@, current_level)]
    /\ UNCHANGED <<timeout_ms, start_ts, start_level, ret>>
    /\ UNCHANGED <<envVars, blindVars, settingsVars, sensorVars, buttonVars, ctrlVars>>

\* lines 155-156
WaitReachLevel ==
    /\ wpc = "reach_level"
    /\ IF current_level = ABOVE_MAGNET_LOGIC_LEVEL
       THEN /\ ret' = TRUE
            /\ wpc' = "done"
            /\ h' = [h EXCEPT !.obs = ObsAfter(@, current_level), !.in_call = FALSE]
            /\ UNCHANGED ts
       ELSE /\ wpc' = "reach_time"
            /\ ts' = 0
            /\ h' = [h EXCEPT !.obs = ObsAfter(@, current_level)]
            /\ UNCHANGED ret
    /\ UNCHANGED <<timeout_ms, start_ts, start_level>>
    /\ UNCHANGED <<envVars, blindVars, settingsVars, sensorVars, buttonVars, ctrlVars>>

WaitForSyncPosition ==
    \/ WaitStart
    \/ WaitLeaveTime
    \/ WaitLeaveLevel
    \/ WaitReachTime
    \/ WaitReachLevel

(***************************************************************************)
(* Buttons                                                                 *)
(***************************************************************************)
\* lines 189 and 195: a reading below the threshold is a press
Pressed(reading) == reading < TOUCH_ADC_THRESHOLD

\* (variant: every pressed reading restarts the press)
PressStart_Restart(reading, started) ==
    IF Pressed(reading) THEN 0 ELSE None

\* lines 189-193 and 195-199: the press start kept for one channel
\* (ts itself, taken at line 188, is the timestamp with nothing elapsed)
PressStart(reading, started) ==
    IF Pressed(reading)
    THEN (IF started = None THEN 0 ELSE started)
    ELSE None

\* (variant: a press of exactly the threshold fires)
Exceeds_AtThreshold(started) == started >= BUTTON_PRESS_EVENT_THRESHOLD_MS

\* the debounce comparison of lines 206, 210-211 and 216-218, on
\* ticks_diff(ts, started)
Exceeds(started) == started > BUTTON_PRESS_EVENT_THRESHOLD_MS

\* (variant: a channel past the threshold fires whether or not the other
\* channel is pressed)
EventOf_PerChannel(up, dn) ==
    IF up # None /\ Exceeds(up) /\ dn # None /\ Exceeds(dn) THEN BOTH
    ELSE IF up # None /\ Exceeds(up) THEN UP
    ELSE IF dn # None /\ Exceeds(dn) THEN DOWN
    ELSE NONE

\* lines 205-222
EventOf(up, dn) ==
    IF up # None /\ dn = None
    THEN (IF Exceeds(up) THEN UP ELSE NONE)
    ELSE IF up = None /\ dn # None
    THEN (IF Exceeds(dn) THEN DOWN ELSE NONE)
    ELSE IF up # None /\ dn # None
    THEN (IF Exceeds(up) /\ Exceeds(dn) THEN BOTH ELSE NONE)
    ELSE NONE

\* (variant: a press that has fired is forgotten, as a one-shot latch would)
PollButtonEvent_OneShot(u, d) ==
    LET up == PressStart(u, start_up_ts)
        dn == PressStart(d, start_down_ts)
        ev == EventOf(up, dn)
    IN  /\ touch_up' = u
        /\ touch_down' = d
        /\ start_up_ts' = IF ev # NONE THEN None ELSE up
        /\ start_down_ts' = IF ev # NONE THEN None ELSE dn
        /\ button_event' = ev

\* poll_button_event() when the pads read u and d: its effect on the Buttons
\* object and its result
PollButtonEvent(u, d) ==
    LET up == PressStart(u, start_up_ts)
        dn == PressStart(d, start_down_ts)
    IN  /\ touch_up' = u
        /\ touch_down' = d
        /\ start_up_ts' = up
        /\ start_down_ts' = dn
        /\ button_event' = EventOf(up, dn)

\* the history record after a poll that read u and d
PollHist(u, d) ==
    LET us == IF u < TOUCH_ADC_THRESHOLD
              THEN (IF h.polled /\ touch_up < TOUCH_ADC_THRESHOLD
                    THEN h.up_since ELSE 0)
              ELSE None
        ds == IF d < TOUCH_ADC_THRESHOLD
              THEN (IF h.polled /\ touch_down < TOUCH_ADC_THRESHOLD
                    THEN h.down_since ELSE 0)
              ELSE None
    IN  [h EXCEPT !.up_since = us, !.down_since = ds,
                  !.up_dur = us, !.down_dur = ds,
                  !.polled = TRUE,
                  !.again = /\ h.polled
                            /\ button_event # NONE
                            /\ button_event' = button_event
                            /\ Pressed(u) = Pressed(touch_up)
                            /\ Pressed(d) = Pressed(touch_down)]

\* the bounce field after a poll of a mode loop (the poll's readings are
\* touch_up' and touch_down')
PolledBounce ==
    IF /\ h.bounce = "during"
       /\ \/ start_up_ts # None /\ Pressed(touch_up')
          \/ start_down_ts # None /\ Pressed(touch_down')
    THEN "polled"
    ELSE "no"

(***************************************************************************)
(* Blind                                                                   *)
(***************************************************************************)
BlindUp == pin_a' = 1 /\ pin_b' = 0

BlindDown == pin_a' = 0 /\ pin_b' = 1

\* (variant: stop switches off one output only)
BlindStop_OnlyA == pin_a' = 0 /\ pin_b' = pin_b

\* (variant: stop leaves the outputs as they are)
BlindStop_Noop == UNCHANGED <<pin_a, pin_b>>

BlindStop == pin_a' = 0 /\ pin_b' = 0

Stopped == pin_a = 0 /\ pin_b = 0

MovingUp == pin_a = 1 /\ pin_b = 0

MovingDown == pin_a = 0 /\ pin_b = 1

(***************************************************************************)
(* Settings                                                                *)
(***************************************************************************)
SetNumberOfTotalSteps(val) == nvs' = val /\ cached' = val

(***************************************************************************)
(* Module body, lines 348-351                                              *)
(***************************************************************************)
Boot ==
    /\ pc = "boot"
    /\ number_of_total_steps' = cached
    /\ pc' = IF cached = None THEN "basic_poll" ELSE "adv_entry"
    /\ UNCHANGED <<caller, button_event, steps, endpos_on_magnet, stop_position,
                   current_position>>
    /\ UNCHANGED <<envVars, blindVars, settingsVars, sensorVars, waitVars,
                   buttonVars, h>>

(***************************************************************************)
(* basic_mode_loop                                                         *)
(***************************************************************************)
\* one iteration up to the blocking call (lines 242-248, 254-258, 262-266)
BasicPoll ==
    /\ pc = "basic_poll"
    /\ \E u \in TouchValues, d \in TouchValues : PollButtonEvent(u, d)
    /\ IF button_event' = UP
       THEN /\ BlindUp
            /\ CallWait(UP_TIMEOUT_MS)
            /\ pc' = "basic_up_wait"
            /\ UNCHANGED caller
       ELSE IF button_event' = DOWN
       THEN /\ BlindDown
            /\ CallWait(DOWN_TIMEOUT_MS)
            /\ pc' = "basic_down_wait"
            /\ UNCHANGED caller
       ELSE IF button_event' = BOTH
       THEN /\ BlindStop
            /\ pc' = "cal_start"
            /\ caller' = "calibration"
            /\ UNCHANGED waitVars
       ELSE /\ BlindStop
            /\ pc' = "basic_poll"
            /\ UNCHANGED <<caller, waitVars>>
    /\ UNCHANGED <<steps, endpos_on_magnet, stop_position, current_position,
                   number_of_total_steps>>
    /\ h' = [h EXCEPT !.bounce = PolledBounce]
    /\ UNCHANGED <<hall_pin, irq_pending, settingsVars, sensorVars>>

\* (variant: a timed-out move is treated as fatal, as in advanced_mode_loop)
BasicWaitReturn_FatalOnTimeout ==
    /\ pc \in {"basic_up_wait", "basic_down_wait"}
    /\ wpc = "done"
    /\ pc' = IF ret THEN "basic_poll" ELSE "halt"
    /\ DropFrame
    /\ h' = HistTaken(h)
    /\ UNCHANGED <<caller, button_event, steps, endpos_on_magnet, stop_position,
                   current_position, number_of_total_steps>>
    /\ UNCHANGED <<envVars, blindVars, settingsVars, sensorVars, buttonVars>>

\* lines 249-252 and 259-261: the result is printed and dropped
BasicWaitReturn ==
    /\ pc \in {"basic_up_wait", "basic_down_wait"}
    /\ wpc = "done"
    /\ DropFrame
    /\ pc' = "basic_poll"
    /\ h' = HistTaken(h)
    /\ UNCHANGED <<caller, button_event, steps, endpos_on_magnet, stop_position,
                   current_position, number_of_total_steps>>
    /\ UNCHANGED <<envVars, blindVars, settingsVars, sensorVars, buttonVars>>

(***************************************************************************)
(* move_up_until_blocked_and_count_steps                                   *)
(***************************************************************************)
\* (variant: the timed-out wait is counted too)
CountStep_Always(r, s) == s + 1

\* line 278: the counter after a wait result
CountStep(r, s) == IF r THEN s + 1 ELSE s

\* lines 270-276
CalStart ==
    /\ pc = "cal_start"
    /\ steps' = 0
    /\ endpos_on_magnet' = FALSE
    /\ BlindUp
    /\ CallWait(UP_TIMEOUT_MS)
    /\ pc' = "cal_wait"
    /\ h' = [h EXCEPT !.reached = 0, !.sync = <<>>]
    /\ UNCHANGED <<caller, button_event, stop_position, current_position,
                   number_of_total_steps>>
    /\ UNCHANGED <<envVars, settingsVars, sensorVars, buttonVars>>

\* lines 276-283: one result of the counting loop
CalWaitReturn ==
    /\ pc = "cal_wait"
    /\ wpc = "done"
    /\ steps' = CountStep(ret, steps)
    /\ steps' <= MaxSteps
    /\ IF ret
       THEN /\ CallWait(UP_TIMEOUT_MS)
            /\ pc' = "cal_wait"
            /\ h' = [HistTaken(h) EXCEPT !.reached = @ + 1]
            /\ UNCHANGED <<endpos_on_magnet, blindVars>>
       ELSE /\ endpos_on_magnet' = IsInSyncPosition
            /\ BlindDown
            /\ CallWait(DOWN_TIMEOUT_MS)
            /\ pc' = "cal_down_wait"
            /\ h' = [HistTaken(h) EXCEPT
                       !.sync = <<hall_pin, current_level, irq_pending>>]
    /\ UNCHANGED <<caller, button_event, stop_position, current_position,
                   number_of_total_steps>>
    /\ UNCHANGED <<envVars, settingsVars, sensorVars, buttonVars>>

\* (variant: the homing pass adopts its own count as the traversal bound)
CalReturn_AdoptsCount ==
    /\ BlindStop
    /\ DropFrame
    /\ IF caller = "calibration"
       THEN /\ number_of_total_steps' = steps
            /\ pc' = "persist"
            /\ UNCHANGED <<current_position, stop_position>>
       ELSE /\ stop_position' = steps
            /\ current_position' = steps
            /\ pc' = "adv_poll"
            /\ UNCHANGED number_of_total_steps
    /\ steps' = 0
    /\ endpos_on_magnet' = FALSE
    /\ h' = [HistTaken(h) EXCEPT !.sync = <<>>, !.down_ret = FALSE]
    /\ UNCHANGED <<caller, button_event>>

\* lines 287-291 and the statement after the call: line 356 (the count
\* becomes number_of_total_steps) or lines 303-306 (the count is dropped and
\* current_position is set)
CalReturn ==
    /\ BlindStop
    /\ DropFrame
    /\ IF caller = "calibration"
       THEN /\ number_of_total_steps' = steps
            /\ pc' = "persist"
            /\ UNCHANGED current_position
       ELSE /\ current_position' = stop_position
            /\ pc' = "adv_poll"
            /\ UNCHANGED number_of_total_steps
    /\ steps' = 0
    /\ endpos_on_magnet' = FALSE
    /\ h' = [HistTaken(h) EXCEPT !.sync = <<>>, !.down_ret = FALSE]
    /\ UNCHANGED <<caller, button_event, stop_position>>

\* lines 283-288: after the down move
CalDownWaitReturn ==
    /\ pc = "cal_down_wait"
    /\ wpc = "done"
    /\ IF endpos_on_magnet
       THEN /\ BlindUp
            /\ CallWait(UP_TIMEOUT_MS)
            /\ pc' = "cal_up_wait"
            /\ h' = [HistTaken(h) EXCEPT !.down_ret = ret]
            /\ UNCHANGED <<caller, button_event, steps, endpos_on_magnet,
                           stop_position, current_position, number_of_total_steps>>
       ELSE CalReturn
    /\ UNCHANGED <<envVars, settingsVars, sensorVars, buttonVars>>

\* lines 286-288: after the compensating up move
CalUpWaitReturn ==
    /\ pc = "cal_up_wait"
    /\ wpc = "done"
    /\ CalReturn
    /\ UNCHANGED <<envVars, settingsVars, sensorVars, buttonVars>>

(***************************************************************************)
(* Module body, line 357                                                   *)
(***************************************************************************)
Persist ==
    /\ pc = "persist"
    /\ SetNumberOfTotalSteps(number_of_total_steps)
    /\ pc' = "adv_entry"
    /\ UNCHANGED <<caller, button_event, steps, endpos_on_magnet, stop_position,
                   current_position, number_of_total_steps>>
    /\ UNCHANGED <<envVars, blindVars, sensorVars, waitVars, buttonVars, h>>

(***************************************************************************)
(* advanced_mode_loop                                                      *)
(***************************************************************************)
\* lines 294-303: stop_position is read (the assert holds: the module body
\* only gets here with a stored value) and the homing pass is called
AdvEntry ==
    /\ pc = "adv_entry"
    /\ cached # None
    /\ stop_position' = cached
    /\ caller' = "homing"
    /\ pc' = "cal_start"
    /\ UNCHANGED <<button_event, steps, endpos_on_magnet, current_position,
                   number_of_total_steps>>
    /\ UNCHANGED <<envVars, blindVars, settingsVars, sensorVars, waitVars,
                   buttonVars, h>>

\* (variant: the motor is left running)
FatalHalt_NoStop ==
    /\ UNCHANGED blindVars
    /\ pc' = "halt"

\* lines 322-325 and 338-341: stop, then spin forever
FatalHalt ==
    /\ BlindStop
    /\ pc' = "halt"

\* one iteration up to a blocking call (lines 310-315, 329-331, 345-346)
AdvPoll ==
    /\ pc = "adv_poll"
    /\ \E u \in TouchValues, d \in TouchValues : PollButtonEvent(u, d)
    /\ IF button_event' = UP
       THEN IF current_position = 0
            THEN /\ BlindUp
                 /\ CallWait(UP_TIMEOUT_MS)
                 /\ pc' = "adv_up_wait"
                 /\ h' = [h EXCEPT !.trav = "up", !.trav_reached = 0,
                                 !.bounce = PolledBounce]
            ELSE /\ pc' = "adv_poll"
                 /\ h' = [h EXCEPT !.bounce = PolledBounce]
                 /\ UNCHANGED <<blindVars, waitVars>>
       ELSE IF button_event' = DOWN
       THEN IF current_position = stop_position
            THEN /\ BlindDown
                 /\ CallWait(DOWN_TIMEOUT_MS)
                 /\ pc' = "adv_down_wait"
                 /\ h' = [h EXCEPT !.trav = "down", !.trav_reached = 0,
                                 !.bounce = PolledBounce]
            ELSE /\ pc' = "adv_poll"
                 /\ h' = [h EXCEPT !.bounce = PolledBounce]
                 /\ UNCHANGED <<blindVars, waitVars>>
       ELSE /\ BlindStop
            /\ pc' = "adv_poll"
            /\ h' = [h EXCEPT !.bounce = PolledBounce]
            /\ UNCHANGED waitVars
    /\ UNCHANGED <<caller, steps, endpos_on_magnet, stop_position,
                   current_position, number_of_total_steps>>
    /\ UNCHANGED <<hall_pin, irq_pending, settingsVars, sensorVars>>

\* lines 317-328: one result of the up traversal
AdvUpWaitReturn ==
    /\ pc = "adv_up_wait"
    /\ wpc = "done"
    /\ IF ret
       THEN /\ current_position' = current_position + 1
            /\ current_position' <= MaxSteps + 1
            /\ IF current_position' = stop_position
               THEN /\ BlindStop
                    /\ DropFrame
                    /\ pc' = "adv_poll"
               ELSE /\ CallWait(UP_TIMEOUT_MS)
                    /\ pc' = "adv_up_wait"
                    /\ UNCHANGED blindVars
            /\ h' = [HistTaken(h) EXCEPT !.trav_reached = @ + 1]
       ELSE /\ FatalHalt
            /\ DropFrame
            /\ h' = HistTaken(h)
            /\ UNCHANGED current_position
    /\ UNCHANGED <<caller, button_event, steps, endpos_on_magnet, stop_position,
                   number_of_total_steps>>
    /\ UNCHANGED <<envVars, settingsVars, sensorVars, buttonVars>>

\* (variant: the down traversal goes back to the poll without stopping)
AdvDownWaitReturn_NoStopAtZero ==
    /\ pc = "adv_down_wait"
    /\ wpc = "done"
    /\ IF ret
       THEN /\ current_position' = current_position - 1
            /\ current_position' >= 0 - (MaxSteps + 1)
            /\ IF current_position' = 0
               THEN /\ DropFrame
                    /\ pc' = "adv_poll"
               ELSE /\ CallWait(DOWN_TIMEOUT_MS)
                    /\ pc' = "adv_down_wait"
            /\ UNCHANGED blindVars
            /\ h' = [HistTaken(h) EXCEPT !.trav_reached = @ + 1]
       ELSE /\ FatalHalt
            /\ DropFrame
            /\ h' = HistTaken(h)
            /\ UNCHANGED current_position
    /\ UNCHANGED <<caller, button_event, steps, endpos_on_magnet, stop_position,
                   number_of_total_steps>>
    /\ UNCHANGED <<envVars, settingsVars, sensorVars, buttonVars>>

\* lines 333-344: one result of the down traversal
AdvDownWaitReturn ==
    /\ pc = "adv_down_wait"
    /\ wpc = "done"
    /\ IF ret
       THEN /\ current_position' = current_position - 1
            /\ current_position' >= 0 - (MaxSteps + 1)
            /\ IF current_position' = 0
               THEN /\ BlindStop
                    /\ DropFrame
                    /\ pc' = "adv_poll"
               ELSE /\ CallWait(DOWN_TIMEOUT_MS)
                    /\ pc' = "adv_down_wait"
                    /\ UNCHANGED blindVars
            /\ h' = [HistTaken(h) EXCEPT !.trav_reached = @ + 1]
       ELSE /\ FatalHalt
            /\ DropFrame
            /\ h' = HistTaken(h)
            /\ UNCHANGED current_position
    /\ UNCHANGED <<caller, button_event, steps, endpos_on_magnet, stop_position,
                   number_of_total_steps>>
    /\ UNCHANGED <<envVars, settingsVars, sensorVars, buttonVars>>

\* lines 324-325 and 340-341:  while True: pass
FatalSpin ==
    /\ pc = "halt"
    /\ UNCHANGED vars

(***************************************************************************)
(* The whole controller                                                    *)
(***************************************************************************)
\* The state when line 348 is reached: Settings() has read the store, the
\* RotationSensor has read the pin, Buttons has no press recorded (no pad has
\* been read yet), the motor outputs are at their reset level.
Constructed ==
    /\ hall_pin \in Levels
    /\ irq_pending = 0
    /\ touch_up = TOUCH_ADC_THRESHOLD
    /\ touch_down = TOUCH_ADC_THRESHOLD
    /\ pin_a = 0
    /\ pin_b = 0
    /\ cached = nvs
    /\ current_level = hall_pin
    /\ relativ_position = 0
    /\ wpc = "idle"
    /\ timeout_ms = 0
    /\ start_ts = None
    /\ start_level = 0
    /\ ts = 0
    /\ ret = FALSE
    /\ start_up_ts = None
    /\ start_down_ts = None
    /\ caller = "none"
    /\ button_event = NONE
    /\ steps = 0
    /\ endpos_on_magnet = FALSE
    /\ stop_position = None
    /\ current_position = 0
    /\ number_of_total_steps = None
    /\ h = HistInit(nvs)

\* the store holds nothing, or a total that a calibration has written
Init ==
    /\ nvs \in {None} \cup (0 .. MaxSteps)
    /\ pc = "boot"
    /\ Constructed

Next ==
    \/ Tick
    \/ PinChange
    \/ PinIrq
    \/ PadBounce
    \/ WaitForSyncPosition
    \/ Boot
    \/ BasicPoll
    \/ BasicWaitReturn
    \/ CalStart
    \/ CalWaitReturn
    \/ CalDownWaitReturn
    \/ CalUpWaitReturn
    \/ Persist
    \/ AdvEntry
    \/ AdvPoll
    \/ AdvUpWaitReturn
    \/ AdvDownWaitReturn
    \/ FatalSpin

Spec == Init /\ [][Next]_vars

(***************************************************************************)
(* The debouncer alone: poll_button_event called again and again, at any   *)
(* cadence, on any raw readings, with the clock resolved finely around     *)
(* BUTTON_PRESS_EVENT_THRESHOLD_MS, and the press durations recorded.      *)
(***************************************************************************)
ButtonsPoll ==
    /\ pc = "poll"
    /\ \E u \in TouchValues, d \in TouchValues :
          /\ PollButtonEvent(u, d)
          /\ h' = PollHist(u, d)
    /\ UNCHANGED <<pc, caller, steps, endpos_on_magnet, stop_position,
                   current_position, number_of_total_steps>>
    /\ UNCHANGED <<hall_pin, irq_pending, blindVars, settingsVars, sensorVars,
                   waitVars>>

InitButtons ==
    /\ nvs = None
    /\ pc = "poll"
    /\ Constructed

NextButtons ==
    \/ TickFine
    \/ ButtonsPoll

SpecButtons == InitButtons /\ [][NextButtons]_vars

(***************************************************************************)
(* The Blind alone: up(), down() and stop() called in any order, from any  *)
(* level of the two outputs.                                               *)
(***************************************************************************)
BlindCall(name) ==
    /\ pc = "blind"
    /\ Len(h.calls) < MaxCalls
    /\ h' = [h EXCEPT !.calls = Append(@, name)]
    /\ UNCHANGED <<envVars, settingsVars, sensorVars, waitVars, buttonVars,
                   ctrlVars>>

BlindCallUp == BlindUp /\ BlindCall("up")

BlindCallDown == BlindDown /\ BlindCall("down")

BlindCallStop == BlindStop /\ BlindCall("stop")

InitBlind ==
    /\ pin_a \in {0, 1}
    /\ pin_b \in {0, 1}
    /\ pc = "blind"
    /\ nvs = None
    /\ cached = None
    /\ h = HistInit(None)
    /\ hall_pin = NOT_ABOVE_MAGNET_LOGIC_LEVEL
    /\ current_level = hall_pin
    /\ irq_pending = 0
    /\ touch_up = TOUCH_ADC_THRESHOLD
    /\ touch_down = TOUCH_ADC_THRESHOLD
    /\ relativ_position = 0
    /\ wpc = "idle"
    /\ timeout_ms = 0
    /\ start_ts = None
    /\ start_level = 0
    /\ ts = 0
    /\ ret = FALSE
    /\ start_up_ts = None
    /\ start_down_ts = None
    /\ caller = "none"
    /\ button_event = NONE
    /\ steps = 0
    /\ endpos_on_magnet = FALSE
    /\ stop_position = None
    /\ current_position = 0
    /\ number_of_total_steps = None

NextBlind ==
    \/ BlindCallUp
    \/ BlindCallDown
    \/ BlindCallStop

SpecBlind == InitBlind /\ [][NextBlind]_vars

(***************************************************************************)
(* Properties                                                              *)
(***************************************************************************)
WaitReturned == wpc = "done"

\* C1: a call of wait_for_sync_position that started on a magnet
\* (start_level = AboveMagnet) returns Reached only after the waiter has,
\* during that call, first read "between magnets" and afterwards read
\* "above magnet"; it never reports the magnet it started on.
C1_LeavesMagnetBeforeReached ==
    (WaitReturned /\ start_level = ABOVE_MAGNET_LOGIC_LEVEL /\ ret)
        => h.obs = 2

C1_Witness ==
    /\ WaitReturned
    /\ start_level = ABOVE_MAGNET_LOGIC_LEVEL
    /\ ret
    /\ h.obs = 2

\* C2: a call that started between magnets reports Reached on the very next
\* "above magnet" transition that _pin_irq publishes inside the timeout
\* window, whatever the interleaving with the waiter's reads: once such a
\* transition has been published the call returns Reached, and it has seen
\* exactly one.
C2_ReachedOnNextAbove ==
    (WaitReturned /\ start_level = NOT_ABOVE_MAGNET_LOGIC_LEVEL /\ h.above_in_win)
        => (ret /\ h.aboves = 1)

\* C3: with no edge notification during the call the result is TimedOut,
\* whatever the start level; the loop goes on past an elapsed-time check only
\* when the elapsed time did not exceed timeout_ms, and returns TimedOut at
\* the first check at which it does; both loops measure from the one start
\* of the call.
C3_OneBudgetTimedOut ==
    /\ (WaitReturned /\ ~h.edge) => ~ret
    /\ wpc \in {"leave_level", "reach_level"} => ts <= timeout_ms
    /\ (WaitReturned /\ ret) => ts <= timeout_ms
    /\ (WaitReturned /\ ~ret) => ts > timeout_ms
    /\ wpc \in {"leave_time", "leave_level", "reach_time", "reach_level"}
          => (start_ts # None /\ start_ts = h.call_age)

C3_Witness ==
    /\ WaitReturned
    /\ ~h.edge
    /\ ~ret
    /\ start_level = ABOVE_MAGNET_LOGIC_LEVEL
    /\ timeout_ms = DOWN_TIMEOUT_MS
    /\ ts > timeout_ms

UpDuration == h.up_dur
DownDuration == h.down_dur
UpPastThreshold == UpDuration # None /\ UpDuration > BUTTON_PRESS_EVENT_THRESHOLD_MS
DownPastThreshold == DownDuration # None /\ DownDuration > BUTTON_PRESS_EVENT_THRESHOLD_MS

\* C5: poll_button_event returns NONE whenever neither channel has been
\* read pressed, poll after poll without a release, for more than
\* BUTTON_PRESS_EVENT_THRESHOLD_MS; an event names only channels pressed for
\* strictly more than the threshold (exactly the threshold does not fire);
\* the duration restarts at the first pressed reading after a release.
C5_EventOnlyPastThreshold ==
    /\ button_event \in {UP, BOTH} => UpPastThreshold
    /\ button_event \in {DOWN, BOTH} => DownPastThreshold
    /\ (~UpPastThreshold /\ ~DownPastThreshold) => button_event = NONE

C5_Witness ==
    /\ button_event = UP
    /\ UpDuration = BUTTON_PRESS_EVENT_THRESHOLD_MS + 1

\* C6 (as claimed): the event is Up if only the up channel is past the
\* threshold, Down if only the down channel is, Both if both are, NONE
\* otherwise; in particular Up when the up channel is past the threshold and
\* the down channel is pressed but not yet past it.
C6_EventPerChannelPastThreshold ==
    h.polled =>
        button_event = (IF UpPastThreshold /\ DownPastThreshold THEN BOTH
                        ELSE IF UpPastThreshold THEN UP
                        ELSE IF DownPastThreshold THEN DOWN
                        ELSE NONE)

\* C6 (amended): the event is Up iff the up channel is past the threshold
\* and the down channel is not pressed, Down iff the down channel is past
\* the threshold and the up channel is not pressed, Both iff both channels
\* are past the threshold, and NONE otherwise: while one channel is past the
\* threshold and the other is pressed but not yet past it, the event is NONE.
C6_EventNeedsOtherChannelReleased ==
    h.polled =>
        button_event = (IF UpPastThreshold /\ DownDuration = None THEN UP
                        ELSE IF DownPastThreshold /\ UpDuration = None THEN DOWN
                        ELSE IF UpPastThreshold /\ DownPastThreshold THEN BOTH
                        ELSE NONE)

C6_Witness ==
    /\ h.polled
    /\ UpPastThreshold
    /\ DownDuration # None
    /\ ~DownPastThreshold
    /\ button_event = NONE

\* C7: the debounce is level-triggered: when the last poll returned an event
\* other than NONE and the next poll reads each pad pressed or not as that
\* poll did, the next poll returns the same event again; returning an event
\* does not consume it.
C7_EventRepeatsWhileHeld ==
    [][(/\ button_event # NONE
        /\ Pressed(touch_up') = Pressed(touch_up)
        /\ Pressed(touch_down') = Pressed(touch_down))
          => button_event' = button_event]_vars

C7_Witness ==
    /\ h.again
    /\ button_event = BOTH

\* C8: when the counting loop of move_up_until_blocked_and_count_steps has
\* got N Reached results and then its first TimedOut, the count is N from
\* then on and the routine returns N with the motor stopped; on a boot with
\* an empty store N is what the store then holds; and the pass that precedes
\* the Advanced polling leaves current_position at the top value,
\* stop_position.
C8_CalibrationCountsReached ==
    /\ pc \in {"cal_wait", "cal_down_wait", "cal_up_wait"} => steps = h.reached
    /\ pc = "persist" => (number_of_total_steps = h.reached /\ Stopped)
    /\ (pc = "adv_entry" /\ h.boot_value = None)
          => (nvs = h.reached /\ cached = h.reached /\ Stopped)
    /\ (pc = "adv_poll" /\ h.trav = "none")
          => (current_position = stop_position /\ stop_position = nvs /\ Stopped)

C8_Witness ==
    /\ pc = "adv_poll"
    /\ h.trav = "none"
    /\ h.boot_value = None
    /\ nvs = 2
    /\ current_position = 2
    /\ Stopped

\* C9: for every stored total T, an Up event at current_position = 0 starts
\* an up traversal that consumes exactly T Reached results (it waits again
\* only while fewer than T have been consumed, current_position counting
\* them), then stops with current_position = T back at the poll; a TimedOut
\* on the k-th wait, k <= T, ends in the fatal halt with
\* current_position = k - 1.
C9_UpTraversalConsumesTotal ==
    /\ pc = "adv_up_wait"
          => (h.trav_reached < stop_position /\ current_position = h.trav_reached)
    /\ (pc = "adv_poll" /\ h.trav = "up")
          => (current_position = stop_position /\ h.trav_reached = stop_position
              /\ Stopped)
    /\ (pc = "halt" /\ h.trav = "up")
          => (current_position = h.trav_reached /\ h.trav_reached < stop_position
              /\ Stopped)

\* C10: a TimedOut during an Advanced up or down traversal stops the motor
\* and enters the fatal halt, and from the fatal halt on the motor outputs
\* stay off, no poll_button_event runs and current_position does not change.
C10_FatalHaltAbsorbing ==
    [][/\ (pc \in {"adv_up_wait", "adv_down_wait"} /\ wpc = "done" /\ ~ret)
            => (pc' = pc \/ pc' = "halt")
       /\ pc' = "halt" => (pin_a' = 0 /\ pin_b' = 0)
       /\ pc = "halt"
            => /\ pc' = "halt"
               /\ current_position' = current_position
               /\ button_event' = button_event
               /\ touch_up' = touch_up /\ touch_down' = touch_down
               /\ ~BasicPoll /\ ~AdvPoll]_vars

C10_Witness ==
    /\ pc = "halt"
    /\ h.trav = "down"
    /\ Stopped
    /\ irq_pending > 0

\* the control context is in advanced_mode_loop past the homing pass (lines
\* 306-346), where current_position is tracked
PositionTracked == pc \in {"adv_poll", "adv_up_wait", "adv_down_wait", "halt"}

\* C11: in every state of Advanced mode in which the position is tracked,
\* 0 <= current_position <= stop_position (the stored total), for every
\* stored total, every sequence of button events and every sequence of wait
\* results.
C11_PositionWithinTotal ==
    PositionTracked
        => (0 <= current_position /\ current_position <= stop_position)

\* the mode the control context is in: Basic is basic_mode_loop (line 352),
\* Calibrating the call of line 356 with the write of line 357, Advanced is
\* advanced_mode_loop (line 361) with its homing pass
Mode ==
    IF pc = "boot" THEN "Boot"
    ELSE IF pc \in {"basic_poll", "basic_up_wait", "basic_down_wait"} THEN "Basic"
    ELSE IF pc = "persist" THEN "Calibrating"
    ELSE IF /\ pc \in {"cal_start", "cal_wait", "cal_down_wait", "cal_up_wait"}
            /\ caller = "calibration" THEN "Calibrating"
    ELSE "Advanced"

\* C12: Basic is left only for Calibrating, and only by a poll that returns
\* BOTH; when a wait of Basic has returned, Reached or TimedOut, the control
\* context goes back to the poll of Basic and nowhere else; Calibrating is
\* left only for Advanced; Advanced is never left; Basic and Calibrating are
\* entered only when the store held nothing at boot, and boot enters Basic
\* exactly then.
C12_ModeOrdering ==
    [][/\ (Mode = "Basic" /\ Mode' # "Basic")
            => (Mode' = "Calibrating" /\ pc = "basic_poll" /\ button_event' = BOTH)
       /\ (pc \in {"basic_up_wait", "basic_down_wait"} /\ wpc = "done" /\ pc' # pc)
            => pc' = "basic_poll"
       /\ Mode = "Calibrating" => Mode' \in {"Calibrating", "Advanced"}
       /\ Mode = "Advanced" => Mode' = "Advanced"
       /\ Mode' \in {"Basic", "Calibrating"} => h.boot_value = None
       /\ (Mode = "Boot" /\ Mode' # "Boot")
            => (Mode' = IF h.boot_value = None THEN "Basic" ELSE "Advanced")]_vars

C12_Witness ==
    /\ Mode = "Advanced"
    /\ pc = "adv_down_wait"
    /\ h.boot_value = None
    /\ nvs = 1

\* C13: in Basic mode the motor is off after every poll that returned NONE,
\* and off when the poll that returned BOTH has handed over to calibration;
\* the motor is on in Basic mode only when the last poll returned UP (then it
\* runs up) or DOWN (then it runs down).
C13_BasicFailSafeStop ==
    /\ (pc = "basic_poll" /\ button_event = NONE) => Stopped
    /\ (pc = "cal_start" /\ caller = "calibration")
          => (button_event = BOTH /\ Stopped)
    /\ (Mode = "Basic" /\ ~Stopped) => button_event \in {UP, DOWN}
    /\ pc = "basic_up_wait" => (button_event = UP /\ MovingUp)
    /\ pc = "basic_down_wait" => (button_event = DOWN /\ MovingDown)

C13_Witness ==
    /\ pc = "basic_poll"
    /\ button_event = NONE
    /\ Stopped
    /\ start_up_ts = PressAgeCap
    /\ start_down_ts = 0

\* C14: the store is written in one place only, line 357, reached only on a
\* boot with an empty store and with the store still empty, so at most once
\* per session, and what is written is the count the calibration returned;
\* the cached value follows the store; advanced_mode_loop reads its bound
\* from the store on entry, and from then on (homing pass, polls,
\* traversals, fatal halt) neither the store nor the bound changes, whatever
\* the homing pass counted.
C14_TotalWrittenOnce ==
    [][/\ pc = "persist" => (nvs = None /\ h.boot_value = None)
       /\ nvs' # nvs => (pc = "persist" /\ nvs' = number_of_total_steps
                          /\ nvs' # None)
       /\ cached' = nvs'
       /\ (pc = "adv_entry" /\ pc' # pc) => stop_position' = nvs
       /\ (Mode = "Advanced" /\ pc # "adv_entry")
            => (stop_position = nvs /\ stop_position' = stop_position
                /\ nvs' = nvs)]_vars

C14_Witness ==
    /\ pc = "adv_poll"
    /\ h.boot_value = None
    /\ nvs = 2
    /\ stop_position = 2
    /\ h.reached = 1

LastCall(calls) == IF Len(calls) = 0 THEN "none" ELSE calls[Len(calls)]

\* C15: from any level of the two outputs, a call of stop() leaves both
\* outputs off, and a call of stop() that directly follows a call of stop()
\* changes neither output.
C15_StopIdempotent ==
    [][(h'.calls # h.calls /\ LastCall(h'.calls) = "stop")
          => /\ pin_a' = 0
             /\ pin_b' = 0
             /\ LastCall(h.calls) = "stop"
                   => (pin_a' = pin_a /\ pin_b' = pin_b)]_vars

C15_Witness ==
    /\ h.calls = <<"down", "stop", "stop">>
    /\ Stopped

\* C16: after the first TimedOut of the counting loop the motor runs down
\* for one wait_for_sync_position(3000), entered after is_in_sync_position()
\* was read; the motor then runs up for a further wait only if that reading
\* was true, and that wait ends with one confirmed sync step that makes up
\* for a confirmed sync step of the down move (net displacement zero); the
\* routine returns with the motor stopped.
C16_EndOfTravelCompensated ==
    /\ pc = "cal_down_wait"
          => (MovingDown /\ timeout_ms = DOWN_TIMEOUT_MS /\ h.sync # <<>>)
    /\ pc = "cal_up_wait"
          => (endpos_on_magnet /\ MovingUp /\ timeout_ms = UP_TIMEOUT_MS)
    /\ (pc = "cal_up_wait" /\ WaitReturned) => (ret /\ h.down_ret)
    /\ pc = "persist" => Stopped

\* C17: after the homing pass current_position is the stored total, whatever
\* the pass counted; the motor runs up in Advanced mode only for an UP event
\* taken at current_position = 0 and runs down only for a DOWN event taken at
\* current_position = stop_position; a down traversal takes one off
\* current_position per Reached, is under way only while current_position
\* is above 0, and ends stopped at 0; between traversals current_position is
\* 0 or the total; at the poll the motor is off (NONE, BOTH, and UP or DOWN
\* at a position where it is not acted on).
C17_AdvancedGating ==
    /\ (pc = "adv_poll" /\ h.trav = "none") => current_position = stop_position
    /\ pc = "adv_up_wait"
          => (button_event = UP /\ MovingUp /\ current_position = h.trav_reached)
    /\ pc = "adv_down_wait"
          => /\ button_event = DOWN
             /\ MovingDown
             /\ current_position = stop_position - h.trav_reached
             /\ current_position > 0
    /\ (pc = "adv_poll" /\ h.trav = "down") => current_position = 0
    /\ pc = "adv_poll" => (Stopped /\ current_position \in {0, stop_position})

\* C18: get_relative_position() is the net number of confirmed sync steps
\* (+1 per up step, -1 per down step) since the counter was last reset.
\* Stated where a program variable holds that number: on a boot with a
\* stored total the first moves of the session are the up moves of the
\* homing pass, so while its counting loop runs the net number of confirmed
\* steps since the constructor set the counter to 0 is steps.
C18_RelativePositionCountsSteps ==
    (h.boot_value # None /\ pc = "cal_wait") => GetRelativePosition = steps

\* C19: in Advanced mode the motor is off whenever the control context is at
\* the poll of advanced_mode_loop, and off in the fatal halt; it is on only
\* while the control context is inside the homing pass or inside an up or
\* down traversal.
C19_AdvancedStoppedAtPoll ==
    /\ pc = "adv_poll" => Stopped
    /\ pc = "halt" => Stopped
    /\ (Mode = "Advanced" /\ ~Stopped)
          => pc \in {"cal_wait", "cal_down_wait", "cal_up_wait",
                     "adv_up_wait", "adv_down_wait"}

C19_Witness ==
    /\ pc = "adv_poll"
    /\ h.trav = "down"
    /\ button_event = DOWN
    /\ current_position = 0
    /\ stop_position = 2
    /\ Stopped

\* the control context is inside a blocking wait_for_sync_position
InBlockingWait ==
    pc \in {"basic_up_wait", "basic_down_wait", "cal_wait", "cal_down_wait",
            "cal_up_wait", "adv_up_wait", "adv_down_wait"}

\* C20: while the control context is inside a wait no pad is read and no
\* event is produced, and a recorded press start is neither cleared nor
\* restarted, whatever the pads do meanwhile; a poll of a mode loop that
\* reads a channel pressed whose press start is recorded keeps that press
\* start, so the first poll after a wait measures the press from the start
\* recorded before the wait and returns the event that start gives, also
\* when the pad was let go and pressed again during the wait.
C20_PressStartKeptAcrossWait ==
    [][/\ InBlockingWait
            => /\ touch_up' = touch_up
               /\ touch_down' = touch_down
               /\ button_event' = button_event
               /\ (start_up_ts' = None) = (start_up_ts = None)
               /\ (start_down_ts' = None) = (start_down_ts = None)
               /\ start_up_ts' >= start_up_ts
               /\ start_down_ts' >= start_down_ts
       /\ (BasicPoll \/ AdvPoll)
            => /\ (start_up_ts # None /\ Pressed(touch_up'))
                     => start_up_ts' = start_up_ts
               /\ (start_down_ts # None /\ Pressed(touch_down'))
                     => start_down_ts' = start_down_ts
               /\ button_event' = EventOf(start_up_ts', start_down_ts')]_vars

C20_Witness ==
    /\ h.bounce = "polled"
    /\ pc = "basic_up_wait"
    /\ button_event = UP
    /\ start_up_ts = PressAgeCap

====
